---- MODULE Spec2Model ----
(***************************************************************************)
(* Model of tbpore's clustering module (src/tbpore/clustering.py):         *)
(* load_matrix, matrix_to_graph, get_clusters, get_formatted_clusters.     *)
(*                                                                         *)
(* A string is the sequence of its character codes ("A" = <<65>>), so a    *)
(* sample name is compared lexicographically as numpy compares strings     *)
(* and the report is the text Python builds, character by character.  A    *)
(* matrix file is a header (the sample fields after the leading field)     *)
(* and its data rows (the leading label field and the integer fields).     *)
(***************************************************************************)
EXTENDS Integers, Sequences, FiniteSets, TLC

\* ------------------------------------------------------------------ bounds
MaxSamples == 3        \* samples in a matrix file: 1..MaxSamples
MaxExtra == 1          \* surplus values appended to an over-long row
MaxClusters == 2       \* clusters in a list handed directly to the formatter
MaxMembers == 2        \* samples that may appear in such a list

\* The sample names, in an order that is not the lexicographic one:
\* "B", "A", "C", "AB", "BA".  A file with n samples uses the first n.
Pool == << <<66>>, <<65>>, <<67>>, <<65, 66>>, <<66, 65>> >>

Dists == {0, 2, 9, 10}          \* pairwise distances of well-formed files
SparseDists == {2, 9}           \* the same, for files of more than three samples
Thresholds == {-1, 3, 8, 9}     \* clustering thresholds
\* (value, mirrored value) written into a pair of cells to break symmetry
AsymValues == {<<5, 6>>, <<6, 5>>, <<100000, 100001>>, <<100001, 100000>>, <<0, 100000>>}
DiagValues == {1, 7}            \* values written onto the diagonal

\* numpy.allclose defaults: rtol = 1e-05 = 1/RtolInv, atol = 1e-08
RtolInv == 100000

\* ------------------------------------------------------------------ helpers
Range(s) == {s[k] : k \in DOMAIN s}
Abs(x) == IF x < 0 THEN -x ELSE x
Perms(n) == {p \in [1..n -> 1..n] : \A a, b \in 1..n : p[a] = p[b] => a = b}
PoolSet(n) == {Pool[k] : k \in 1..n}

\* s < t as numpy orders strings: code point by code point, a proper prefix first
RECURSIVE LexLess(_, _)
LexLess(s, t) ==
    IF t = <<>> THEN FALSE
    ELSE IF s = <<>> THEN TRUE
    ELSE IF Head(s) # Head(t) THEN Head(s) < Head(t)
    ELSE LexLess(Tail(s), Tail(t))

\* ------------------------------------------------------------------ load_matrix
\* Insert index i into the index list acc, which is ordered by names.
RECURSIVE InsertIdx(_, _, _)
InsertIdx(names, acc, i) ==
    IF acc = <<>> THEN <<i>>
    ELSE IF LexLess(names[i], names[Head(acc)]) THEN <<i>> \o acc
    ELSE <<Head(acc)>> \o InsertIdx(names, Tail(acc), i)

RECURSIVE SortIdx(_, _)
SortIdx(names, k) ==
    IF k = 0 THEN <<>> ELSE InsertIdx(names, SortIdx(names, k - 1), k)

NoSort(names) == [k \in 1..Len(names) |-> k]
\* np.argsort(names): the positions of names, in lexicographic order of the names
ArgSort(names) == SortIdx(names, Len(names))

\* arr[idx]: numpy fancy indexing; an index beyond the array raises IndexError
CanTake(arr, idx) == \A k \in DOMAIN idx : idx[k] \in DOMAIN arr
Take(arr, idx) == [k \in DOMAIN idx |-> arr[idx[k]]]

\* |a - b| <= atol + rtol * |b| on integers a, b: since atol < 1/RtolInv this
\* is |a - b| * RtolInv <= |b|, that is |a - b| <= |b| div RtolInv
IsClose(a, b) == Abs(a - b) <= Abs(b) \div RtolInv

\* np.allclose(m, m.T)
AllClose(m, n) == \A i, j \in 1..n : IsClose(m[i][j], m[j][i])

DiagonalIsZeroFirstOnly(m, n) == n = 0 \/ m[1][1] = 0
\* all(sorted_matrix[i, i] == 0 for i in range(n_samples))
DiagonalIsZero(m, n) == \A i \in 1..n : m[i][i] = 0

\* Entries (i, j) of the upper triangle in row-major order, from row i on.
RECURSIVE TriuFrom(_, _, _, _)
TriuFrom(m, sn, n, i) ==
    IF i >= n THEN <<>>
    ELSE [k \in 1..(n - i) |-> [s1 |-> sn[i], s2 |-> sn[i + k], dist |-> m[i][i + k]]]
         \o TriuFrom(m, sn, n, i + 1)

StackWithDiagonal(m, sn, n) ==
    TriuFrom(m, sn, n, 1) \o [k \in 1..n |-> [s1 |-> sn[k], s2 |-> sn[k], dist |-> m[k][k]]]
\* mx.where(np.triu(ones, k=1)).stack(): the pd.Series of the strict upper
\* triangle, as the sequence of its (sample1, sample2) -> distance entries
Stack(m, sn, n) == TriuFrom(m, sn, n, 1)

Failure(e) == [ok |-> FALSE, err |-> e, mx |-> <<>>]

LoadMatrix(f) ==
    LET names == f.header
        idx == ArgSort(names)
        sorted_names == Take(names, idx)
        n_samples == Len(sorted_names)
    IN  IF \E r \in DOMAIN f.rows : ~CanTake(f.rows[r].vals, idx)
        THEN Failure("IndexError")
        ELSE LET matrix == [r \in DOMAIN f.rows |-> Take(f.rows[r].vals, idx)]
             IN  IF ~CanTake(matrix, idx) THEN Failure("IndexError")
                 ELSE LET sorted_matrix == Take(matrix, idx)
                      IN  IF ~DiagonalIsZero(sorted_matrix, n_samples)
                          THEN Failure("Distance matrix diagonal is not all zero")
                          ELSE IF ~AllClose(sorted_matrix, n_samples)
                          THEN Failure("Distance matrix is not symmetric")
                          ELSE [ok |-> TRUE, err |-> "",
                                mx |-> Stack(sorted_matrix, sorted_names, n_samples)]

\* ------------------------------------------------------------------ matrix_to_graph
\* graph.add_node(u): networkx keeps the nodes in insertion order
AddNode(nodes, u) == IF u \in Range(nodes) THEN nodes ELSE Append(nodes, u)

\* The nodes after add_weighted_edges_from(edges[k..]): u, then v, of each edge
RECURSIVE AddEdgeNodes(_, _, _)
AddEdgeNodes(nodes, edges, k) ==
    IF k > Len(edges) THEN nodes
    ELSE AddEdgeNodes(AddNode(AddNode(nodes, edges[k].s1), edges[k].s2), edges, k + 1)

\* for u in chain.from_iterable(mx.index): graph.add_node(u)
AddSingletons(nodes, mx) ==
    AddEdgeNodes(nodes, mx, 1)

EdgeQualifiesStrict(dist, threshold) == dist < threshold
EdgeQualifiesReversed(dist, threshold) == dist >= threshold
\* the filter of the list comprehension: dist <= threshold
EdgeQualifies(dist, threshold) == dist <= threshold

MatrixToGraph(mx, threshold, include_singletons) ==
    LET edges == SelectSeq(mx, LAMBDA e : EdgeQualifies(e.dist, threshold))
        linked == AddEdgeNodes(<<>>, edges, 1)
    IN  [nodes |-> IF include_singletons THEN AddSingletons(linked, mx) ELSE linked,
         edges |-> {[u |-> edges[k].s1, v |-> edges[k].s2, weight |-> edges[k].dist] :
                        k \in DOMAIN edges}]

\* ------------------------------------------------------------------ get_clusters
Neighbors(G, x) ==
    {e.v : e \in {d \in G.edges : d.u = x}} \cup {e.u : e \in {d \in G.edges : d.v = x}}

\* networkx _plain_bfs: everything reachable from the frontier
RECURSIVE PlainBfs(_, _, _)
PlainBfs(G, frontier, seen) ==
    LET next == UNION {Neighbors(G, x) : x \in frontier} \ seen
    IN  IF next = {} THEN seen ELSE PlainBfs(G, next, seen \cup next)

\* nx.connected_components: for v in G: if v not in seen: yield bfs(v)
RECURSIVE ConnectedComponents(_, _, _)
ConnectedComponents(G, k, seen) ==
    IF k > Len(G.nodes) THEN <<>>
    ELSE IF G.nodes[k] \in seen THEN ConnectedComponents(G, k + 1, seen)
    ELSE LET c == PlainBfs(G, {G.nodes[k]}, {G.nodes[k]})
         IN  <<c>> \o ConnectedComponents(G, k + 1, seen \cup c)

\* ------------------------------------------------------------------ get_formatted_clusters
TabStr == <<9>>                                       \* "\t"
NewlineStr == <<10>>                                  \* "\n"
ColonStr == <<58>>                                    \* ":"
ClusterStr == <<67, 108, 117, 115, 116, 101, 114, 32, 35>>   \* "Cluster #"

\* str(k) for k >= 0: the decimal digits
RECURSIVE Str(_)
Str(k) == IF k < 10 THEN <<48 + k>> ELSE Str(k \div 10) \o <<48 + (k % 10)>>

\* sep.join(strs)
RECURSIVE Join(_, _)
Join(sep, strs) ==
    IF strs = <<>> THEN <<>>
    ELSE IF Len(strs) = 1 THEN strs[1]
    ELSE strs[1] \o sep \o Join(sep, Tail(strs))

\* The orders in which Python may iterate over a set of strings
IterOrders(S) ==
    {o \in [1..Cardinality(S) -> S] : \A a, b \in 1..Cardinality(S) : o[a] = o[b] => a = b}

\* One iteration order for each cluster of the list
RECURSIVE ListIterOrders(_)
ListIterOrders(cs) ==
    IF cs = <<>> THEN {<<>>}
    ELSE {<<o>> \o rest : o \in IterOrders(Head(cs)), rest \in ListIterOrders(Tail(cs))}

ClusterIndexZeroBased(cluster_index) == Str(cluster_index)
\* f"{cluster_index+1}", cluster_index counted from 0 by enumerate
ClusterNumber(cluster_index) == Str(cluster_index + 1)

\* iter[k] is the order in which the k-th cluster (a set) is iterated
FormattedClusters(iter) ==
    LET clusters_as_strs ==
            [k \in DOMAIN iter |->
                ClusterStr \o ClusterNumber(k - 1) \o ColonStr \o TabStr \o Join(TabStr, iter[k])]
    IN  Join(NewlineStr, clusters_as_strs)

\* ------------------------------------------------------------------ inputs
Pairs(n) == {q \in (1..n) \X (1..n) : q[1] < q[2]}

\* The file of n samples whose k-th column and k-th row are sample Pool[p[k]],
\* with the distance u[<<i, j>>] between Pool[i] and Pool[j]
WellFormed(n, u, p) ==
    LET d(i, j) == IF i = j THEN 0 ELSE IF i < j THEN u[<<i, j>>] ELSE u[<<j, i>>]
    IN  [header |-> [k \in 1..n |-> Pool[p[k]]],
         rows |-> [k \in 1..n |->
                     [label |-> Pool[p[k]], vals |-> [j \in 1..n |-> d(p[k], p[j])]]]]

SetCell(f, i, j, x) == [f EXCEPT !.rows[i].vals[j] = x]

\* f with rows i and j exchanged (labels included): the rows no longer
\* follow the order of the header columns
SwapRows(f, i, j) == [f EXCEPT !.rows[i] = f.rows[j], !.rows[j] = f.rows[i]]

Padding(k) == [x \in 1..k |-> 4]

Malformed(f, n) ==
    {SetCell(SetCell(f, q[1], q[2], a[1]), q[2], q[1], a[2]) : q \in Pairs(n), a \in AsymValues}
    \cup {SetCell(f, i, i, x) : i \in 1..n, x \in DiagValues}
    \cup {[f EXCEPT !.rows[r].vals = @ \o Padding(k)] : r \in 1..n, k \in 1..MaxExtra}
    \cup {[f EXCEPT !.rows[r].vals = SubSeq(@, 1, n - 1)] : r \in 1..n}
    \cup {[f EXCEPT !.rows = SubSeq(@, 1, n - 1)], [f EXCEPT !.rows = @ \o <<f.rows[1]>>]}
    \cup {SwapRows(f, q[1], q[2]) : q \in Pairs(n)}

\* Files of up to three samples are enumerated exhaustively.  Larger ones
\* take their distances from SparseDists, and only those whose header is in
\* Pool order are also damaged.
Exhaustive(n) == n <= 3
Identity(n) == [k \in 1..n |-> k]

FilesOf(n) ==
    UNION {{WellFormed(n, u, p)}
           \cup (IF Exhaustive(n) \/ p = Identity(n)
                 THEN Malformed(WellFormed(n, u, p), n) ELSE {}) :
              u \in [Pairs(n) -> IF Exhaustive(n) THEN Dists ELSE SparseDists],
              p \in Perms(n)}

Files == UNION {FilesOf(n) : n \in 1..MaxSamples}

NoFile == [header |-> <<>>, rows |-> <<>>]
NoGraph == [nodes |-> <<>>, edges |-> {}]

\* Lists of at most MaxClusters sets of samples (not necessarily disjoint)
ClusterLists ==
    UNION {[1..k -> SUBSET PoolSet(MaxMembers)] : k \in 0..MaxClusters}

\* ------------------------------------------------------------------ state
VARIABLES
    call,        \* the function the caller invokes
    pc,          \* "start", "failed", "clustered", "formatted"
    file,        \* the matrix file at psdm_matrix
    threshold,   \* clustering_threshold
    err,         \* the message of the exception load_matrix raised, or ""
    ont_mtx,     \* the pd.Series load_matrix returned
    ont_graph,   \* the graph matrix_to_graph returned
    clusters,    \* the list of clusters
    text         \* the report get_formatted_clusters returned

vars == <<call, pc, file, threshold, err, ont_mtx, ont_graph, clusters, text>>

Init ==
    /\ pc = "start"
    /\ err = ""
    /\ ont_mtx = <<>>
    /\ ont_graph = NoGraph
    /\ text = <<>>
    /\ \/ /\ call = "get_clusters"
          /\ file \in Files
          /\ threshold \in Thresholds
          /\ clusters = <<>>
       \/ /\ call = "get_formatted_clusters"
          /\ file = NoFile
          /\ threshold = 0
          /\ clusters \in ClusterLists

\* get_clusters(psdm_matrix, clustering_threshold)
GetClusters ==
    /\ pc = "start"
    /\ call = "get_clusters"
    /\ LET loaded == LoadMatrix(file)
           graph == MatrixToGraph(loaded.mx, threshold, TRUE)
       IN  IF loaded.ok
           THEN /\ pc' = "clustered"
                /\ err' = ""
                /\ ont_mtx' = loaded.mx
                /\ ont_graph' = graph
                /\ clusters' = ConnectedComponents(graph, 1, {})
           ELSE /\ pc' = "failed"
                /\ err' = loaded.err
                /\ UNCHANGED <<ont_mtx, ont_graph, clusters>>
    /\ UNCHANGED <<call, file, threshold, text>>

\* get_formatted_clusters(clusters), on the result of get_clusters or on a
\* list the caller supplies
GetFormattedClusters ==
    /\ \/ pc = "clustered"
       \/ pc = "start" /\ call = "get_formatted_clusters"
    /\ \E iter \in ListIterOrders(clusters) : text' = FormattedClusters(iter)
    /\ pc' = "formatted"
    /\ UNCHANGED <<call, file, threshold, err, ont_mtx, ont_graph, clusters>>

Next == GetClusters \/ GetFormattedClusters

Spec == Init /\ [][Next]_vars

\* ------------------------------------------------------------------ vocabulary of the claims
NSamples(f) == Len(f.header)
SampleSet(f) == Range(f.header)
Pos(f, a) == CHOOSE k \in DOMAIN f.header : f.header[k] = a

\* Every data row carries exactly one value per header column, one row per sample
Square(f) ==
    /\ Len(f.rows) = NSamples(f)
    /\ \A r \in DOMAIN f.rows : Len(f.rows[r].vals) = NSamples(f)
\* The data rows are in the order of the header columns
Aligned(f) ==
    /\ Len(f.rows) = NSamples(f)
    /\ \A r \in DOMAIN f.rows : f.rows[r].label = f.header[r]
ZeroDiagonal(f) == \A i \in 1..NSamples(f) : f.rows[i].vals[i] = 0
Symmetric(f) == \A i, j \in 1..NSamples(f) : f.rows[i].vals[j] = f.rows[j].vals[i]
Valid(f) == Square(f) /\ Aligned(f) /\ ZeroDiagonal(f) /\ Symmetric(f)

\* The distance a valid file gives for samples a and b
FileDist(f, a, b) == f.rows[Pos(f, a)].vals[Pos(f, b)]

\* The file with its samples (columns, and the rows with them) in order p
Reorder(f, p) ==
    [header |-> [k \in DOMAIN p |-> f.header[p[k]]],
     rows |-> [k \in DOMAIN p |->
                 [label |-> f.rows[p[k]].label,
                  vals |-> [j \in DOMAIN p |-> f.rows[p[k]].vals[p[j]]]]]]

ClustersAt(mx, t) == ConnectedComponents(MatrixToGraph(mx, t, TRUE), 1, {})

Returned == call = "get_clusters" /\ pc \in {"clustered", "formatted"}
Finished == call = "get_clusters" /\ pc # "start"

\* a and b are equal or joined by a chain of samples, each consecutive pair
\* of which has a distance <= t in mx
Linked(mx, t, a, b) ==
    \E e \in Range(mx) : e.dist <= t /\ {e.s1, e.s2} = {a, b}
Joined(mx, t, S, a, b) ==
    \E len \in 1..Cardinality(S) : \E path \in [1..len -> S] :
        /\ path[1] = a
        /\ path[len] = b
        /\ \A k \in 1..(len - 1) : Linked(mx, t, path[k], path[k + 1])

\* text.split(sep) for a one-character sep
RECURSIVE Split(_, _)
Split(txt, sep) ==
    IF \A k \in DOMAIN txt : txt[k] # sep THEN <<txt>>
    ELSE LET k == CHOOSE i \in DOMAIN txt : txt[i] = sep /\ \A j \in 1..(i - 1) : txt[j] # sep
         IN  <<SubSeq(txt, 1, k - 1)>> \o Split(SubSeq(txt, k + 1, Len(txt)), sep)

\* ------------------------------------------------------------------ claims

\* C1: the clusters get_clusters returns partition the sample set of the
\* matrix: every cluster is non-empty, every sample of the header is in
\* exactly one cluster, and the clusters together are the sample set.
C1_ClustersPartitionSamples ==
    Returned =>
        /\ \A k \in DOMAIN clusters : clusters[k] # {}
        /\ \A a \in SampleSet(file) :
              Cardinality({k \in DOMAIN clusters : a \in clusters[k]}) = 1
        /\ UNION Range(clusters) = SampleSet(file)

\* C2: the graph has an edge between two samples exactly when the distance
\* of the pair is <= the threshold (a pair at the threshold is connected, a
\* pair one above it is not), and the weight of an edge is that distance.
C2_EdgeIffWithinThreshold ==
    Returned =>
        /\ \A e \in Range(ont_mtx) :
              (e.dist <= threshold) <=>
                  [u |-> e.s1, v |-> e.s2, weight |-> e.dist] \in ont_graph.edges
        /\ \A g \in ont_graph.edges :
              \E e \in Range(ont_mtx) : e.s1 = g.u /\ e.s2 = g.v /\ e.dist = g.weight
        /\ Cardinality(ont_graph.edges) =
              Cardinality({k \in DOMAIN ont_mtx : ont_mtx[k].dist <= threshold})

C2_Witness ==
    /\ Returned
    /\ \E e \in Range(ont_mtx) :
          e.dist = threshold /\ [u |-> e.s1, v |-> e.s2, weight |-> e.dist] \in ont_graph.edges
    /\ \E e \in Range(ont_mtx) :
          e.dist = threshold + 1 /\ \A g \in ont_graph.edges : {g.u, g.v} # {e.s1, e.s2}

\* C3: every square matrix with an all-zero diagonal in which some entry
\* differs from its mirror entry is rejected with the asymmetry error.
C3_AsymmetryRejected ==
    (Finished /\ Square(file) /\ ZeroDiagonal(file) /\ ~Symmetric(file)) =>
        (pc = "failed" /\ err = "Distance matrix is not symmetric" /\ ont_mtx = <<>>)

\* C4: every matrix in which some sample's self-distance is not zero is
\* rejected with the diagonal error, and no pair mapping is built.
C4_NonZeroDiagonalRejected ==
    (/\ Finished
     /\ Len(file.rows) >= NSamples(file)
     /\ \A r \in DOMAIN file.rows : Len(file.rows[r].vals) >= NSamples(file)
     /\ ~ZeroDiagonal(file)) =>
        /\ pc = "failed"
        /\ err = "Distance matrix diagonal is not all zero"
        /\ ont_mtx = <<>>
        /\ clusters = <<>>

C4_Witness ==
    /\ Finished
    /\ Square(file)
    /\ NSamples(file) >= 3
    /\ file.rows[1].vals[1] = 0
    /\ ~ZeroDiagonal(file)
    /\ err = "Distance matrix diagonal is not all zero"

\* C5: every file in which some data row has fewer or more values than the
\* header has sample names fails to load.
C5_RowLengthRejected ==
    (Finished /\ \E r \in DOMAIN file.rows : Len(file.rows[r].vals) # NSamples(file)) =>
        (pc = "failed" /\ ont_mtx = <<>>)

\* C6: a valid file and the same file with its samples in any other order
\* load to the same matrix (same pairs, values and order) and give the same
\* clusters in the same order at the same threshold.
C6_ColumnOrderIrrelevant ==
    (Returned /\ Valid(file)) =>
        \A p \in Perms(NSamples(file)) :
            LET loaded == LoadMatrix(Reorder(file, p))
            IN  /\ loaded.ok
                /\ loaded.mx = ont_mtx
                /\ ClustersAt(loaded.mx, threshold) = clusters

C6_Witness ==
    /\ Returned
    /\ Valid(file)
    /\ NSamples(file) = 3
    /\ file.header # Take(file.header, ArgSort(file.header))
    /\ Cardinality({ont_mtx[k].dist : k \in DOMAIN ont_mtx}) = 3
    /\ Len(clusters) = 2

\* C7: for thresholds t1 < t2, every cluster obtained at t1 is a subset of
\* some cluster obtained at t2 on the same matrix.
C7_ThresholdMonotone ==
    Returned =>
        \A t2 \in {t \in Thresholds : t > threshold} :
            \A k \in DOMAIN clusters :
                \E c \in Range(ClustersAt(ont_mtx, t2)) : clusters[k] \subseteq c

C7_Witness ==
    /\ Returned
    /\ threshold = 3
    /\ Len(clusters) = 3
    /\ Len(ClustersAt(ont_mtx, 9)) = 1

\* C8: two samples are in the same cluster exactly when a chain of pairs at
\* distance <= threshold joins them, and a sample with no such pair forms a
\* cluster of size 1.
C8_SameClusterIffJoined ==
    Returned =>
        /\ \A a, b \in SampleSet(file) :
              (\E k \in DOMAIN clusters : {a, b} \subseteq clusters[k])
                  <=> Joined(ont_mtx, threshold, SampleSet(file), a, b)
        /\ \A a \in SampleSet(file) :
              (\A b \in SampleSet(file) : ~Linked(ont_mtx, threshold, a, b))
                  => \E k \in DOMAIN clusters : clusters[k] = {a}

\* C9: a valid file loads to one entry per unordered pair of distinct
\* samples, keyed (a, b) with a < b, in lexicographic order of the keys,
\* valued with the distance the file gives for a and b.
C9_UpperTriangleMapping ==
    (Returned /\ Valid(file)) =>
        LET n == NSamples(file)
        IN  /\ 2 * Len(ont_mtx) = n * (n - 1)
            /\ \A k \in DOMAIN ont_mtx :
                  /\ {ont_mtx[k].s1, ont_mtx[k].s2} \subseteq SampleSet(file)
                  /\ LexLess(ont_mtx[k].s1, ont_mtx[k].s2)
                  /\ ont_mtx[k].dist = FileDist(file, ont_mtx[k].s1, ont_mtx[k].s2)
            /\ \A k \in 1..(Len(ont_mtx) - 1) :
                  \/ LexLess(ont_mtx[k].s1, ont_mtx[k + 1].s1)
                  \/ /\ ont_mtx[k].s1 = ont_mtx[k + 1].s1
                     /\ LexLess(ont_mtx[k].s2, ont_mtx[k + 1].s2)

C9_Witness ==
    /\ Returned
    /\ Valid(file)
    /\ NSamples(file) = 3
    /\ file.header # Take(file.header, ArgSort(file.header))
    /\ {ont_mtx[k].dist : k \in DOMAIN ont_mtx} = {0, 2, 10}

\* C10: the report has one line per cluster, in order; line k is
\* "Cluster #k:" and a tab, then the members of cluster k, each once,
\* separated by tabs; lines are joined by newlines with none trailing, and
\* the empty list gives the empty text.
C10_OneLinePerCluster ==
    pc = "formatted" =>
        IF clusters = <<>> THEN text = <<>>
        ELSE LET lines == Split(text, NewlineStr[1])
                 label(k) == ClusterStr \o Str(k) \o ColonStr \o TabStr
             IN  /\ Len(lines) = Len(clusters)
                 /\ \A k \in DOMAIN clusters :
                       /\ Len(lines[k]) >= Len(label(k))
                       /\ SubSeq(lines[k], 1, Len(label(k))) = label(k)
                       /\ LET rest == SubSeq(lines[k], Len(label(k)) + 1, Len(lines[k]))
                              fields == Split(rest, TabStr[1])
                          IN  IF clusters[k] = {} THEN rest = <<>>
                              ELSE /\ Len(fields) = Cardinality(clusters[k])
                                   /\ Range(fields) = clusters[k]

C10_Witness ==
    /\ pc = "formatted"
    /\ Len(clusters) = 2
    /\ Cardinality(clusters[1]) = 2
    /\ Cardinality(clusters[2]) = 1
====
